---- MODULE Spec2Model ----
(***************************************************************************)
(* A model of torifune's receipt-extraction core:                          *)
(*   - src-tauri/src/providers/googledocumentai.rs : the provider          *)
(*     (credential exchange, document submission, entity resolution);      *)
(*   - src-tauri/src/providers/mod.rs : the result types and the registry; *)
(*   - src-tauri/src/commands.rs : batch_ocr_receipts, the bounded         *)
(*     concurrency orchestrator.                                           *)
(*                                                                         *)
(* Conventions.  Option<T> is a sequence of length 0 (None) or 1 (Some).   *)
(* A Rust String whose characters matter (mention text, normalized text,   *)
(* money units) is a sequence of one-character strings; a string that is   *)
(* only compared (an entity type, an error message) is a TLA+ string.  A   *)
(* path is the sequence of its components.  An f64 is a record             *)
(* [kind, w, n]: kind "fin" is the number w + n / 10^9 with 0 <= n < 10^9, *)
(* the other kinds are the two infinities and NaN.                         *)
(***************************************************************************)
EXTENDS Integers, Sequences, FiniteSets, TLC

VARIABLES
    mode,             \* which part of the program this behaviour exercises
    settings,         \* OcrSettings read from the store
    requests,         \* batch_ocr_receipts: the submitted Vec<OcrRequest>
    pc,               \* per task: position of the task's async block
    file_name,        \* per task: the local file_name (Option)
    inv,              \* per invocation of the provider: [op, net, result]
    permits,          \* Semaphore: free permits
    waiters,          \* Semaphore: tasks queued in acquire(), first in first out
    completed_count,  \* AtomicUsize completed_count
    events,           \* "ocr-progress" events emitted so far, in emission order
    output,           \* per task: Option of the (index, result) it returned
    results,          \* Option of the Vec<OcrResult> batch_ocr_receipts returned
    entities,         \* resolver: the entity list of one response
    types,            \* resolver: the candidate type list given to find_entity
    found,            \* resolver: Option of find_entity's answer (a position)
    entity,           \* resolver: the entity given to resolve_total
    total,            \* resolver: Option of resolve_total's answer (an Option<f64>)
    receipt,          \* resolver: Option of the ReceiptData assembled from the response
    resolved,         \* resolver: Option of resolve_text's answer (an Option<String>)
    providers,        \* OcrProviderRegistry: the field providers
    registered,       \* the arguments of the register calls made so far, in order
    calls,            \* per call of a command: its name, position, invocation, result
    lock,             \* the registry's Mutex: its holder and the calls queued in lock()
    hung              \* the tasks whose remote call will never be answered

vars ==
    << mode, settings, requests, pc, file_name, inv, permits, waiters,
       completed_count, events, output, results, entities, types, found,
       entity, total, receipt, resolved, providers, registered, calls, lock, hung >>

---------------------------------------------------------------------------
(* Option<T> *)

None == << >>

Some(x) == << x >>

IsSome(o) == Len(o) = 1

IsNone(o) == Len(o) = 0

Unwrap(o) == o[1]

Last(s) == s[Len(s)]

---------------------------------------------------------------------------
(* f64 values and str::parse::<f64>() *)

NanosPerUnit == 1000000000

Fin(w, n) == [kind |-> "fin", w |-> w, n |-> n]

PosInf == [kind |-> "inf", w |-> 0, n |-> 0]

NegInf == [kind |-> "-inf", w |-> 0, n |-> 0]

NaN == [kind |-> "nan", w |-> 0, n |-> 0]

IsFinite(v) == v.kind = "fin"

\* v >= 0.0 in f64 (false for NaN, true for -0.0 which is stored as 0)
IsNonNegative(v) == v.kind = "inf" \/ (v.kind = "fin" /\ v.w >= 0)

\* -v
Negate(v) ==
    CASE v.kind = "inf" -> NegInf
      [] v.kind = "-inf" -> PosInf
      [] v.kind = "nan" -> NaN
      [] OTHER -> IF v.n = 0 THEN Fin(0 - v.w, 0)
                  ELSE Fin(0 - v.w - 1, NanosPerUnit - v.n)

\* a + b in f64 (exact on the finite values of the model)
AddF64(a, b) ==
    CASE a.kind = "nan" \/ b.kind = "nan" -> NaN
      [] a.kind = "inf" -> IF b.kind = "-inf" THEN NaN ELSE PosInf
      [] a.kind = "-inf" -> IF b.kind = "inf" THEN NaN ELSE NegInf
      [] b.kind # "fin" -> b
      [] OTHER -> Fin(a.w + b.w + ((a.n + b.n) \div NanosPerUnit),
                      (a.n + b.n) % NanosPerUnit)

Digits == {"0", "1", "2", "3", "4", "5", "6", "7", "8", "9"}

DigitVal(c) ==
    CASE c = "0" -> 0 [] c = "1" -> 1 [] c = "2" -> 2 [] c = "3" -> 3
      [] c = "4" -> 4 [] c = "5" -> 5 [] c = "6" -> 6 [] c = "7" -> 7
      [] c = "8" -> 8 [] c = "9" -> 9

RECURSIVE Pow10(_)
Pow10(k) == IF k = 0 THEN 1 ELSE 10 * Pow10(k - 1)

\* the value of a string of decimal digits read as an integer
RECURSIVE DigitsVal(_)
DigitsVal(s) ==
    IF s = << >> THEN 0
    ELSE 10 * DigitsVal(SubSeq(s, 1, Len(s) - 1)) + DigitVal(Last(s))

IsAsciiDigit(c) == c \in Digits

CountOf(s, c) == Cardinality({k \in 1..Len(s) : s[k] = c})

IndexOf(s, c) == CHOOSE k \in 1..Len(s) : s[k] = c /\ \A j \in 1..(k - 1) : s[j] # c

\* the spellings of the non-finite values f64::from_str accepts (lower case)
InfWords == { <<"i", "n", "f">>, <<"i", "n", "f", "i", "n", "i", "t", "y">> }

NanWords == { <<"n", "a", "n">> }

\* digits with at most one '.', at least one digit: "12", "1.5", ".5", "5."
IsDecimal(s) ==
    /\ \A k \in 1..Len(s) : IsAsciiDigit(s[k]) \/ s[k] = "."
    /\ CountOf(s, ".") <= 1
    /\ \E k \in 1..Len(s) : IsAsciiDigit(s[k])

DecimalVal(s) ==
    IF CountOf(s, ".") = 0 THEN Fin(DigitsVal(s), 0)
    ELSE LET d == IndexOf(s, ".")
             ip == SubSeq(s, 1, d - 1)
             fp == SubSeq(s, d + 1, Len(s))
         IN  Fin(DigitsVal(ip), DigitsVal(fp) * Pow10(9 - Len(fp)))

\* the unsigned part of a float literal
ParseUnsigned(s) ==
    IF s \in InfWords THEN Some(PosInf)
    ELSE IF s \in NanWords THEN Some(NaN)
    ELSE IF IsDecimal(s) THEN Some(DecimalVal(s))
    ELSE None

\* s.parse::<f64>().ok(): an optional sign, then inf / infinity / nan or a
\* decimal number.  Exponent notation ('e', 'E') is outside the alphabet of
\* the strings the model draws; the model's strings have at most 9 digits on
\* either side of the point, so every finite value is exact.
ParseF64(s) ==
    IF s = << >> THEN None
    ELSE IF s[1] = "-" THEN
        LET r == ParseUnsigned(Tail(s))
        IN  IF IsSome(r) THEN Some(Negate(Unwrap(r))) ELSE None
    ELSE IF s[1] = "+" THEN ParseUnsigned(Tail(s))
    ELSE ParseUnsigned(s)

\* nanos as f64 / 1_000_000_000.0
NanosF64(k) == Fin(k \div NanosPerUnit, k % NanosPerUnit)

---------------------------------------------------------------------------
(* The entity resolver: find_entity, resolve_text, resolve_total *)

\* mention.chars().filter(|c| c.is_ascii_digit() || *c == '.').collect()
FilterDigits(s) == SelectSeq(s, LAMBDA c : IsAsciiDigit(c) \/ c = ".")

\* entities.iter().find(|e| e.entity_type.as_deref() == Some(t)), scanning
\* from position j: the position of the first match, 0 when there is none
RECURSIVE FindFrom(_, _, _)
FindFrom(ents, t, j) ==
    IF j > Len(ents) THEN 0
    ELSE IF ents[j].entity_type = Some(t) THEN j
    ELSE FindFrom(ents, t, j + 1)

FindType(ents, t) == FindFrom(ents, t, 1)

\* mutant of find_entity: the first entity, in document order, whose type is
\* any of the candidates
MutFindEntityDocumentOrder(ents, tys) ==
    LET hits == {j \in 1..Len(ents) :
                    \E k \in 1..Len(tys) : ents[j].entity_type = Some(tys[k])}
    IN  IF hits = {} THEN None
        ELSE Some(CHOOSE j \in hits : \A i \in hits : j <= i)

\* find_entity: the loop over the candidate types, in order; the answer is
\* the position of the entity returned (None when the loop falls through)
RECURSIVE find_entity(_, _)
find_entity(ents, tys) ==
    IF tys = << >> THEN None
    ELSE IF FindType(ents, Head(tys)) # 0 THEN Some(FindType(ents, Head(tys)))
    ELSE find_entity(ents, Tail(tys))

\* format!("{:0width$}", k) for an i32 k: zero padded to at least `width`
\* characters, the sign counted in the width
RECURSIVE NatDigits(_)
NatDigits(k) ==
    IF k < 10 THEN << CHOOSE c \in Digits : DigitVal(c) = k >>
    ELSE Append(NatDigits(k \div 10), CHOOSE c \in Digits : DigitVal(c) = k % 10)

RECURSIVE ZeroPad(_, _)
ZeroPad(s, width) == IF Len(s) >= width THEN s ELSE ZeroPad(<<"0">> \o s, width)

FormatPadded(k, width) ==
    IF k >= 0 THEN ZeroPad(NatDigits(k), width)
    ELSE <<"-">> \o ZeroPad(NatDigits(0 - k), width - 1)

\* mutant of resolve_text: a complete date is rendered even when the
\* normalized value has a text
MutResolveTextDateFirst(e) ==
    LET nv == e.normalized_value
        dv == Unwrap(nv).date_value
        d == Unwrap(dv)
    IN  IF /\ IsSome(nv)
           /\ IsSome(dv)
           /\ IsSome(d.year) /\ IsSome(d.month) /\ IsSome(d.day)
        THEN Some(FormatPadded(Unwrap(d.year), 4) \o <<"-">>
                      \o FormatPadded(Unwrap(d.month), 2) \o <<"-">>
                      \o FormatPadded(Unwrap(d.day), 2))
        ELSE IF IsSome(nv) /\ IsSome(Unwrap(nv).text) THEN Some(Unwrap(Unwrap(nv).text))
        ELSE e.mention_text

resolve_text(e) ==
    LET nv == e.normalized_value
        dv == Unwrap(nv).date_value
        d == Unwrap(dv)
    IN  IF IsSome(nv) /\ IsSome(Unwrap(nv).text) THEN Some(Unwrap(Unwrap(nv).text))
        ELSE IF /\ IsSome(nv)
                /\ IsSome(dv)
                /\ IsSome(d.year) /\ IsSome(d.month) /\ IsSome(d.day)
        THEN Some(FormatPadded(Unwrap(d.year), 4) \o <<"-">>
                      \o FormatPadded(Unwrap(d.month), 2) \o <<"-">>
                      \o FormatPadded(Unwrap(d.day), 2))
        ELSE e.mention_text

\* money.units.and_then(|s| s.parse().ok()).unwrap_or(0.0) + nanos / 1e9
MoneyF64(money) ==
    LET u == IF IsSome(money.units) THEN ParseF64(Unwrap(money.units)) ELSE None
        units == IF IsSome(u) THEN Unwrap(u) ELSE Fin(0, 0)
        nanos == NanosF64(IF IsSome(money.nanos) THEN Unwrap(money.nanos) ELSE 0)
    IN  AddF64(units, nanos)

\* mutant of resolve_total: the mention text is tried before the normalized
\* value
RECURSIVE MutResolveTotalMentionFirst(_)
RECURSIVE MutResolveFirst(_)
MutResolveTotalMentionFirst(e) ==
    LET nv == e.normalized_value
        n == Unwrap(nv)
        byText == IF IsSome(nv) /\ IsSome(n.text) THEN ParseF64(Unwrap(n.text)) ELSE None
        byMention ==
            IF IsSome(e.mention_text) THEN ParseF64(FilterDigits(Unwrap(e.mention_text)))
            ELSE None
    IN  IF IsSome(byMention) THEN byMention
        ELSE IF IsSome(nv) /\ IsSome(n.money_value) THEN Some(MoneyF64(Unwrap(n.money_value)))
        ELSE IF IsSome(byText) THEN byText
        ELSE IF IsSome(e.properties) THEN MutResolveFirst(Unwrap(e.properties))
        ELSE None

MutResolveFirst(props) ==
    IF props = << >> THEN None
    ELSE IF IsSome(MutResolveTotalMentionFirst(Head(props)))
    THEN MutResolveTotalMentionFirst(Head(props))
    ELSE MutResolveFirst(Tail(props))

\* resolve_total; ResolveFirst is its loop over the properties
RECURSIVE resolve_total(_)
RECURSIVE ResolveFirst(_)
resolve_total(e) ==
    LET nv == e.normalized_value
        n == Unwrap(nv)
        byText == IF IsSome(nv) /\ IsSome(n.text) THEN ParseF64(Unwrap(n.text)) ELSE None
        byMention ==
            IF IsSome(e.mention_text) THEN ParseF64(FilterDigits(Unwrap(e.mention_text)))
            ELSE None
    IN  IF IsSome(nv) /\ IsSome(n.money_value) THEN Some(MoneyF64(Unwrap(n.money_value)))
        ELSE IF IsSome(byText) THEN byText
        ELSE IF IsSome(byMention) THEN byMention
        ELSE IF IsSome(e.properties) THEN ResolveFirst(Unwrap(e.properties))
        ELSE None

ResolveFirst(props) ==
    IF props = << >> THEN None
    ELSE IF IsSome(resolve_total(Head(props))) THEN resolve_total(Head(props))
    ELSE ResolveFirst(Tail(props))

---------------------------------------------------------------------------
(* providers/mod.rs: the data types *)

\* Result<T, String>
Ok(x) == [ok |-> TRUE, val |-> Some(x), err |-> None]

Err(e) == [ok |-> FALSE, val |-> None, err |-> Some(e)]

\* the value ()
Unit == "()"

ReceiptData_new(file) ==
    [file |-> file, merchant |-> None, date |-> None, amount |-> None,
     currency |-> None, receiver_name |-> None]

OcrResult_success(data) == [success |-> TRUE, data |-> Some(data), error |-> None]

\* mutant of OcrResult_failure: the failure carries an empty record too
MutOcrResultFailureWithData(error) ==
    [success |-> FALSE, data |-> Some(ReceiptData_new(<< >>)), error |-> Some(error)]

OcrResult_failure(error) == [success |-> FALSE, data |-> None, error |-> Some(error)]

\* match ... { Ok(data) => OcrResult::success(data), Err(e) => OcrResult::failure(e) }
ToOcrResult(r) ==
    IF r.ok THEN OcrResult_success(Unwrap(r.val)) ELSE OcrResult_failure(Unwrap(r.err))

\* Path::new(p).file_name().and_then(|s| s.to_str()).unwrap_or(p).to_string():
\* the last component, or the whole path when it is empty or ends in ".."
FileNameOf(path) ==
    IF path = << >> \/ Last(path) = ".." THEN path ELSE << Last(path) >>

\* a provider object: the name it answers and which object it is
Provider(name, id) == [name |-> name, id |-> id]

GoogleDocumentAiProvider == Provider("googledocumentai", 0)

\* mutant of register: the provider is put in front of the others
MutRegisterInFront(reg, provider) == << provider >> \o reg

\* self.providers.push(provider)
register(reg, provider) == Append(reg, provider)

\* Self { providers: vec![] } and the registration of the built-in provider
OcrProviderRegistry_new == register(<< >>, GoogleDocumentAiProvider)

\* self.providers.first().cloned()
get_default_provider(reg) == IF reg = << >> THEN None ELSE Some(reg[1])

\* self.providers.iter().find(|p| p.name() == name).cloned(), scanning from j
RECURSIVE FindProviderFrom(_, _, _)
FindProviderFrom(reg, name, j) ==
    IF j > Len(reg) THEN None
    ELSE IF reg[j].name = name THEN Some(reg[j])
    ELSE FindProviderFrom(reg, name, j + 1)

get_provider(reg, name) == FindProviderFrom(reg, name, 1)

\* self.providers.iter().map(|p| p.name().to_string()).collect()
list_providers(reg) == [k \in 1..Len(reg) |-> reg[k].name]

\* the registry Mutex: unlocked, nobody queued
Unlocked == [holder |-> None, waiters |-> << >>]

---------------------------------------------------------------------------
(* providers/googledocumentai.rs: the provider's pipeline *)

\* the error messages (the source's are Japanese; each keeps its own text)
ERR_TEST_CONFIG == "settings incomplete"

ERR_EXTRACT_CONFIG == "OCR settings incomplete"

ERR_SA_PARSE == "service account JSON parse failed"

ERR_KEY_PARSE == "private key parse failed"

ERR_TOKEN_SEND == "token request failed"

ERR_TOKEN_HTTP == "token fetch failed: HTTP status"

ERR_TOKEN_BODY == "token response parse failed"

ERR_DOC_SEND == "Document AI API request failed"

ERR_DOC_HTTP == "Document AI processing failed: HTTP status"

ERR_DOC_BODY == "Document AI response parse failed"

ERR_NO_PROVIDER == "OCR provider not found"

DEFAULT_TOKEN_URI == "https://oauth2.googleapis.com/token"

DEFAULT_LOCATION == "us"

MerchantTypes == <<"merchant_name", "supplier_name", "vendor_name", "receipt_merchant_name">>

DateTypes == <<"receipt_date", "purchase_date", "transaction_date", "invoice_date", "date">>

TotalTypes == <<"total_amount", "invoice_total", "receipt_total">>

\* mutant of is_configured: the processor id is not looked at
MutIsConfiguredNoProcessor(s) ==
    /\ IsSome(s.project_id)
    /\ IsSome(s.service_account_json)

is_configured(s) ==
    /\ IsSome(s.project_id)
    /\ IsSome(s.processor_id)
    /\ IsSome(s.service_account_json)

\* serde_json::from_str::<ServiceAccountKey>(json): the JSON text is modelled by
\* what deserialising it gives
parse_service_account(json) ==
    IF json.wellformed
    THEN Ok([client_email |-> json.client_email, private_key |-> json.private_key,
             token_uri |-> json.token_uri])
    ELSE Err(ERR_SA_PARSE)

\* one network call: which call, where to, and the document sent with it
NetCall(call, to, content) == [call |-> call, to |-> to, content |-> content]

\* the state of one invocation of the provider
\*   stage  "idle" (not called yet), "token" (awaiting the token POST),
\*          "submit" (awaiting the document POST), "done" (returned)
\*   net    the network calls issued so far, in order
\*   answers the answers received to them, in order
\*   result Option of the Result returned
Invocation(op, args) ==
    [op |-> op, args |-> args, stage |-> "idle", net |-> << >>, answers |-> << >>,
     result |-> None]

\* the answer to the call awaited has arrived
Answered(iv, reply) == [iv EXCEPT !.answers = Append(@, reply.kind)]

Returned(iv, r) == [iv EXCEPT !.stage = "done", !.result = Some(r)]

\* fetch_access_token up to its first await: the key is parsed and the
\* assertion signed, then the token POST is sent
fetch_access_token_begin(iv, service_account) ==
    IF service_account.private_key # "rsa_pem" THEN Returned(iv, Err(ERR_KEY_PARSE))
    ELSE [iv EXCEPT
            !.stage = "token",
            !.net = Append(@, NetCall("token",
                        IF IsSome(service_account.token_uri)
                        THEN Unwrap(service_account.token_uri)
                        ELSE DEFAULT_TOKEN_URI,
                        None))]

\* fetch_access_token from the answer to the token POST to its return
fetch_access_token_end(reply) ==
    CASE reply.kind = "send_error" -> Err(ERR_TOKEN_SEND)
      [] reply.kind = "http_error" -> Err(ERR_TOKEN_HTTP)
      [] reply.kind = "bad_body" -> Err(ERR_TOKEN_BODY)
      [] OTHER -> Ok("access_token")

\* the ? of the two steps before the first await, shared by both operations
ProviderBegin(iv, s, config_error) ==
    IF ~is_configured(s) THEN Returned(iv, Err(config_error))
    ELSE LET sa == parse_service_account(Unwrap(s.service_account_json))
         IN  IF ~sa.ok THEN Returned(iv, Err(Unwrap(sa.err)))
             ELSE fetch_access_token_begin(iv, Unwrap(sa.val))

test_connection_begin(iv, s) == ProviderBegin(iv, s, ERR_TEST_CONFIG)

\* mutant of extract_receipt_begin: the token another invocation obtained is
\* reused, and the document is submitted at once
MutExtractReceiptBeginCachedToken(iv, s) ==
    IF /\ is_configured(s)
       /\ \E c \in DOMAIN inv : inv[c].answers # << >> /\ inv[c].answers[1] = "ok"
    THEN [iv EXCEPT
            !.stage = "submit",
            !.net = Append(@, NetCall("submit",
                        IF IsSome(s.location) THEN Unwrap(s.location)
                        ELSE DEFAULT_LOCATION,
                        Some(<<iv.args.file_content, iv.args.mime_type>>)))]
    ELSE ProviderBegin(iv, s, ERR_EXTRACT_CONFIG)

extract_receipt_begin(iv, s) == ProviderBegin(iv, s, ERR_EXTRACT_CONFIG)

\* mutant of extract_receipt_token: a token request refused with an HTTP
\* error is sent once more
MutExtractReceiptTokenRetries(iv, s, reply) ==
    IF reply.kind = "http_error" /\ Len(iv.net) < 2
    THEN [Answered(iv, reply) EXCEPT !.net = Append(@, iv.net[1])]
    ELSE IF ~fetch_access_token_end(reply).ok
    THEN Returned(Answered(iv, reply), Err(Unwrap(fetch_access_token_end(reply).err)))
    ELSE [Answered(iv, reply) EXCEPT
            !.stage = "submit",
            !.net = Append(@, NetCall("submit",
                        IF IsSome(s.location) THEN Unwrap(s.location)
                        ELSE DEFAULT_LOCATION,
                        Some(<<iv.args.file_content, iv.args.mime_type>>)))]

\* extract_receipt after the token POST has answered: the document POST
extract_receipt_token(iv, s, reply) ==
    LET t == fetch_access_token_end(reply)
    IN  IF ~t.ok THEN Returned(Answered(iv, reply), Err(Unwrap(t.err)))
        ELSE [Answered(iv, reply) EXCEPT
                !.stage = "submit",
                !.net = Append(@, NetCall("submit",
                            IF IsSome(s.location) THEN Unwrap(s.location)
                            ELSE DEFAULT_LOCATION,
                            Some(<<iv.args.file_content, iv.args.mime_type>>)))]

\* mutant of test_connection_token: the test goes on to submit a document
MutTestConnectionSubmits(iv, reply) == extract_receipt_token(iv, settings, reply)

\* test_connection after the token POST has answered
test_connection_token(iv, reply) ==
    LET t == fetch_access_token_end(reply)
    IN  IF t.ok THEN Returned(Answered(iv, reply), Ok(Unit))
        ELSE Returned(Answered(iv, reply), Err(Unwrap(t.err)))

\* the fields resolved from the response (extract_receipt, after the body parsed)
AssembleReceipt(file_path, api_response) ==
    LET blank == ReceiptData_new(FileNameOf(file_path))
        ents == Unwrap(Unwrap(api_response.document).entities)
        m == find_entity(ents, MerchantTypes)
        d == find_entity(ents, DateTypes)
        t == find_entity(ents, TotalTypes)
    IN  IF IsNone(api_response.document) THEN blank
        ELSE IF IsNone(Unwrap(api_response.document).entities) THEN blank
        ELSE [blank EXCEPT
                !.merchant = IF IsSome(m) THEN resolve_text(ents[Unwrap(m)]) ELSE @,
                !.date = IF IsSome(d) THEN resolve_text(ents[Unwrap(d)]) ELSE @,
                !.amount = IF IsSome(t) THEN resolve_total(ents[Unwrap(t)]) ELSE @]

\* extract_receipt after the document POST has answered
extract_receipt_submit(iv, reply) ==
    CASE reply.kind = "send_error" -> Returned(Answered(iv, reply), Err(ERR_DOC_SEND))
      [] reply.kind = "http_error" -> Returned(Answered(iv, reply), Err(ERR_DOC_HTTP))
      [] reply.kind = "bad_body" -> Returned(Answered(iv, reply), Err(ERR_DOC_BODY))
      [] OTHER -> Returned(Answered(iv, reply),
                      Ok(AssembleReceipt(iv.args.file_path, Unwrap(reply.body))))

---------------------------------------------------------------------------
(* The inputs the specifications draw from *)

MaxJobs == 4

ServiceAccountJsons ==
    { [wellformed |-> TRUE, client_email |-> "sa@proj", private_key |-> "rsa_pem",
       token_uri |-> None],
      [wellformed |-> TRUE, client_email |-> "sa@proj", private_key |-> "rsa_pem",
       token_uri |-> Some("https://token.example")],
      [wellformed |-> TRUE, client_email |-> "sa@proj", private_key |-> "not_pem",
       token_uri |-> None],
      [wellformed |-> FALSE, client_email |-> "", private_key |-> "",
       token_uri |-> None] }

GoodJson == CHOOSE j \in ServiceAccountJsons :
    j.wellformed /\ j.private_key = "rsa_pem" /\ j.token_uri = None

BadKeyJson == CHOOSE j \in ServiceAccountJsons : j.wellformed /\ j.private_key = "not_pem"

MalformedJson == CHOOSE j \in ServiceAccountJsons : ~j.wellformed

OcrSettings(p, l, r, j) ==
    [project_id |-> p, location |-> l, processor_id |-> r, service_account_json |-> j]

\* every combination of present and absent settings
AllSettings ==
    { OcrSettings(p, l, r, j) :
        p \in {None, Some("proj")}, l \in {None, Some("eu")},
        r \in {None, Some("proc")},
        j \in {None} \cup {Some(x) : x \in ServiceAccountJsons} }

\* the settings a batch is run under: complete; unconfigured; unparseable
\* credential; credential with a malformed private key
BatchSettings ==
    { OcrSettings(Some("proj"), None, Some("proc"), Some(GoodJson)),
      OcrSettings(Some("proj"), None, None, Some(GoodJson)),
      OcrSettings(Some("proj"), None, Some("proc"), Some(MalformedJson)),
      OcrSettings(Some("proj"), None, Some("proc"), Some(BadKeyJson)) }

PathList ==
    << <<"2024-05", "a.png">>, <<"b.pdf">>, <<"inbox", "..">> >>

OcrRequest(path) ==
    [file_path |-> path, file_content |-> <<"base64", path>>, mime_type |-> "image/png"]

\* the batches: 0..MaxJobs requests, their paths taken in turn from PathList
Batches ==
    { [i \in 1..n |-> OcrRequest(PathList[((i + k) % Len(PathList)) + 1])] :
        n \in 0..MaxJobs, k \in 0..(Len(PathList) - 1) }

Entity(ty, mention, nv, props) ==
    [entity_type |-> ty, mention_text |-> mention, normalized_value |-> nv,
     properties |-> props]

NormalizedValue(text, money, date) ==
    [text |-> text, money_value |-> money, date_value |-> date]

Money(units, nanos) == [units |-> units, nanos |-> nanos]

Date(y, m, d) == [year |-> y, month |-> m, day |-> d]

ApiResponse(ents) == [document |-> Some([entities |-> Some(ents)])]

\* a receipt as Document AI answers it
SampleResponse ==
    ApiResponse(<<
        Entity(Some("supplier_name"), Some(<<"S", "h", "o", "p">>), None, None),
        Entity(Some("receipt_date"), Some(<<"3", "/", "5">>),
               Some(NormalizedValue(None, None, Some(Date(Some(2024), Some(3), Some(5))))),
               None),
        Entity(Some("total_amount"), Some(<<"1", "2", ".", "3", "4">>),
               Some(NormalizedValue(None,
                        Some(Money(Some(<<"1", "2">>), Some(340000000))), None)),
               None) >>)

\* the answers of the remote services
TokenReplies == { [kind |-> k] : k \in {"ok", "http_error", "send_error", "bad_body"} }

SubmitReplies ==
    { [kind |-> k, body |-> None] : k \in {"http_error", "send_error", "bad_body"} }
    \cup { [kind |-> "ok", body |-> Some(r)] :
            r \in { SampleResponse, [document |-> None],
                    [document |-> Some([entities |-> None])] } }

\* the answers a batch is run against
BatchTokenReplies == { r \in TokenReplies : r.kind \in {"ok", "http_error"} }

BatchSubmitReplies ==
    { r \in SubmitReplies : r.kind = "http_error" \/ r.body = Some(SampleResponse) }

---------------------------------------------------------------------------
(* commands.rs: batch_ocr_receipts *)

MAX_CONCURRENT_OCR == 3

Tasks == 1..Len(requests)

\* the registry as lib.rs builds it, no command called, no call hung,
\* resolve_text not called
OthersIdle ==
    /\ resolved = None
    /\ providers = OcrProviderRegistry_new
    /\ registered = providers
    /\ calls = << >>
    /\ lock = Unlocked
    /\ hung = {}

UnchangedOthers == UNCHANGED << resolved, providers, registered, calls, lock, hung >>

\* the state of the resolver's variables while another part is exercised
ResolverIdle ==
    /\ entities = << >>
    /\ types = << >>
    /\ found = None
    /\ entity = Entity(None, None, None, None)
    /\ total = None
    /\ receipt = None

\* the state once batch_ocr_receipts has read the settings, cloned the
\* provider, dropped the registry lock and built one task per request
BatchInit ==
    /\ mode = "batch"
    /\ settings \in BatchSettings
    /\ requests \in Batches
    /\ pc = [i \in Tasks |-> "pending"]
    /\ file_name = [i \in Tasks |-> None]
    /\ inv = [i \in Tasks |-> Invocation("extract", requests[i])]
    /\ permits = MAX_CONCURRENT_OCR
    /\ waiters = << >>
    /\ completed_count = 0
    /\ events = << >>
    /\ output = [i \in Tasks |-> None]
    /\ results = None
    /\ ResolverIdle
    /\ OthersIdle

UnchangedResolver == UNCHANGED << entities, types, found, entity, total, receipt >>

\* mutant of CanAcquire: the gate admits a task when no permit is free
MutCanAcquire(i) == permits >= 0 /\ waiters # << >> /\ Head(waiters) = i

\* mutant of CanAcquire: the permit of a task whose remote call hangs is
\* taken back and given to the first task in the queue
MutCanAcquireReclaims(i) ==
    (permits > 0 \/ hung # {}) /\ waiters # << >> /\ Head(waiters) = i

\* the guard of semaphore.acquire() for a queued task: a permit is free and
\* the task is the first in the queue
CanAcquire(i) == permits > 0 /\ waiters # << >> /\ Head(waiters) = i

\* OcrProgressEvent { current, total, file_name, result: Some(result) }
ProgressEvent(current, n, name, result) ==
    [current |-> current, total |-> n, file_name |-> name, result |-> Some(result)]

\* what the task returns
TaskOutput(i, result) == << i, result >>

\* mutant of Complete: the event carries the value fetch_add returned, not
\* that value plus one
MutCompleteStaleCount(i, iv, held) ==
    LET result == ToOcrResult(Unwrap(iv.result))
    IN  /\ completed_count' = completed_count + 1
        /\ events' = Append(events,
               ProgressEvent(completed_count, Len(requests), Unwrap(file_name[i]), result))
        /\ output' = [output EXCEPT ![i] = Some(TaskOutput(i, result))]
        /\ permits' = held + 1
        /\ pc' = [pc EXCEPT ![i] = "done"]

\* mutant of Complete: the permit is given back only by a task that succeeded
MutCompleteKeepPermit(i, iv, held) ==
    LET result == ToOcrResult(Unwrap(iv.result))
        completed == completed_count + 1
    IN  /\ completed_count' = completed
        /\ events' = Append(events,
               ProgressEvent(completed, Len(requests), Unwrap(file_name[i]), result))
        /\ output' = [output EXCEPT ![i] = Some(TaskOutput(i, result))]
        /\ permits' = IF result.success THEN held + 1 ELSE held
        /\ pc' = [pc EXCEPT ![i] = "done"]

\* mutant of Complete: the event carries the position of the job in the
\* batch, not the number of jobs completed
MutCompleteEmitsIndex(i, iv, held) ==
    LET result == ToOcrResult(Unwrap(iv.result))
        completed == completed_count + 1
    IN  /\ completed_count' = completed
        /\ events' = Append(events,
               ProgressEvent(i, Len(requests), Unwrap(file_name[i]), result))
        /\ output' = [output EXCEPT ![i] = Some(TaskOutput(i, result))]
        /\ permits' = held + 1
        /\ pc' = [pc EXCEPT ![i] = "done"]

\* the end of a task, from the return of extract_receipt on: the counter is
\* incremented, the event emitted, (index, result) returned and the permit
\* dropped.  `held` is the number of free permits while the task holds its own.
Complete(i, iv, held) ==
    LET result == ToOcrResult(Unwrap(iv.result))
        completed == completed_count + 1
    IN  /\ completed_count' = completed
        /\ events' = Append(events,
               ProgressEvent(completed, Len(requests), Unwrap(file_name[i]), result))
        /\ output' = [output EXCEPT ![i] = Some(TaskOutput(i, result))]
        /\ permits' = held + 1
        /\ pc' = [pc EXCEPT ![i] = "done"]

\* the task goes on waiting, for the answer that its invocation awaits
Suspend(i, iv, held) ==
    /\ pc' = [pc EXCEPT ![i] = iv.stage]
    /\ permits' = held
    /\ UNCHANGED << completed_count, events, output >>

\* join_all polls its futures in the order of the vector
CanStart(i) == pc[i] = "pending" /\ \A j \in 1..(i - 1) : pc[j] # "pending"

\* mutant of Start: the task does not queue at the semaphore, it goes on
\* to its remote call at once
MutStartSkipsGate(i) ==
    /\ mode = "batch"
    /\ CanStart(i)
    /\ file_name' = [file_name EXCEPT ![i] = Some(FileNameOf(requests[i].file_path))]
    /\ pc' = [pc EXCEPT ![i] = "token"]
    /\ UNCHANGED << mode, settings, requests, inv, permits, waiters, completed_count,
                    events, output, results >>
    /\ UnchangedResolver
    /\ UnchangedOthers

\* the first poll of task i: file_name is computed and the task queues at the
\* semaphore
Start(i) ==
    /\ mode = "batch"
    /\ CanStart(i)
    /\ file_name' = [file_name EXCEPT ![i] = Some(FileNameOf(requests[i].file_path))]
    /\ waiters' = Append(waiters, i)
    /\ pc' = [pc EXCEPT ![i] = "admitted"]
    /\ UNCHANGED << mode, settings, requests, inv, permits, completed_count, events,
                    output, results >>
    /\ UnchangedResolver
    /\ UnchangedOthers

\* task i gets its permit and runs extract_receipt to its first await, or to
\* its return when it fails before any
Acquire(i) ==
    /\ mode = "batch"
    /\ pc[i] = "admitted"
    /\ CanAcquire(i)
    /\ waiters' = Tail(waiters)
    /\ LET iv == extract_receipt_begin(inv[i], settings)
       IN  /\ inv' = [inv EXCEPT ![i] = iv]
           /\ IF iv.stage = "done" THEN Complete(i, iv, permits - 1)
              ELSE Suspend(i, iv, permits - 1)
    /\ UNCHANGED << mode, settings, requests, file_name, results >>
    /\ UnchangedResolver
    /\ UnchangedOthers

\* the token endpoint answers task i
TokenReply(i, reply) ==
    /\ mode = "batch"
    /\ pc[i] = "token"
    /\ LET iv == extract_receipt_token(inv[i], settings, reply)
       IN  /\ inv' = [inv EXCEPT ![i] = iv]
           /\ IF iv.stage = "done" THEN Complete(i, iv, permits)
              ELSE Suspend(i, iv, permits)
    /\ UNCHANGED << mode, settings, requests, file_name, waiters, results >>
    /\ UnchangedResolver
    /\ UnchangedOthers

\* the document processor answers task i
SubmitReply(i, reply) ==
    /\ mode = "batch"
    /\ pc[i] = "submit"
    /\ LET iv == extract_receipt_submit(inv[i], reply)
       IN  /\ inv' = [inv EXCEPT ![i] = iv]
           /\ Complete(i, iv, permits)
    /\ UNCHANGED << mode, settings, requests, file_name, waiters, results >>
    /\ UnchangedResolver
    /\ UnchangedOthers

\* join_all(tasks).await: the outputs of the tasks, in the order of the tasks
JoinAll(out) == [k \in 1..Len(requests) |-> Unwrap(out[k])]

\* indexed_results.sort_by_key(|(index, _)| *index): a stable sort
RECURSIVE InsertByKey(_, _)
InsertByKey(sorted, x) ==
    IF sorted = << >> THEN << x >>
    ELSE IF Last(sorted)[1] <= x[1] THEN Append(sorted, x)
    ELSE Append(InsertByKey(SubSeq(sorted, 1, Len(sorted) - 1), x), Last(sorted))

\* mutant of SortByKey: the sort is by descending index
MutSortByKeyDescending(s) == [k \in 1..Len(s) |-> s[Len(s) + 1 - k]]

RECURSIVE SortByKey(_)
SortByKey(s) ==
    IF s = << >> THEN << >>
    ELSE InsertByKey(SortByKey(SubSeq(s, 1, Len(s) - 1)), Last(s))

\* mutant of Return: the batch stops at the first failed outcome, as
\* try_join_all or a collect into Result would
MutReturnUntilFailure ==
    /\ mode = "batch"
    /\ results = None
    /\ \A i \in Tasks : pc[i] = "done"
    /\ LET indexed_results == SortByKey(JoinAll(output))
           ok == {k \in 1..Len(indexed_results) :
                    \A j \in 1..k : indexed_results[j][2].success}
       IN  results' = Some([k \in 1..Cardinality(ok) |-> indexed_results[k][2]])
    /\ UNCHANGED << mode, settings, requests, pc, file_name, inv, permits, waiters,
                    completed_count, events, output >>
    /\ UnchangedResolver
    /\ UnchangedOthers

\* join_all is ready once every task has returned
CanReturn == results = None /\ \A i \in Tasks : pc[i] = "done"

\* every task is done: the outputs are sorted by index and the results returned
Return ==
    /\ mode = "batch"
    /\ CanReturn
    /\ LET indexed_results == SortByKey(JoinAll(output))
       IN  results' = Some([k \in 1..Len(indexed_results) |-> indexed_results[k][2]])
    /\ UNCHANGED << mode, settings, requests, pc, file_name, inv, permits, waiters,
                    completed_count, events, output >>
    /\ UnchangedResolver
    /\ UnchangedOthers

BatchNext ==
    \/ \E i \in Tasks : Start(i)
    \/ \E i \in Tasks : Acquire(i)
    \/ \E i \in Tasks : \E reply \in BatchTokenReplies : TokenReply(i, reply)
    \/ \E i \in Tasks : \E reply \in BatchSubmitReplies : SubmitReply(i, reply)
    \/ Return

BatchSpec == BatchInit /\ [][BatchNext]_vars

Spec == BatchSpec

\* every task that can take a step eventually takes one: the runtime polls
\* the batch whenever a task is woken, and every remote call is answered
FairBatchSpec == BatchSpec /\ WF_vars(BatchNext)

---------------------------------------------------------------------------
(* The provider alone: one call of test_connection or extract_receipt *)

\* the state of the orchestrator's variables while another part is exercised
BatchIdle ==
    /\ requests = << >>
    /\ pc = << >>
    /\ file_name = << >>
    /\ permits = MAX_CONCURRENT_OCR
    /\ waiters = << >>
    /\ completed_count = 0
    /\ events = << >>
    /\ output = << >>
    /\ results = None

UnchangedBatch ==
    UNCHANGED << requests, pc, file_name, permits, waiters, completed_count, events,
                 output, results >>

\* the one invocation of the provider
Caller == "caller"

ProviderInit ==
    /\ mode = "provider"
    /\ settings \in AllSettings
    /\ \E op \in {"test", "extract"} :
           inv = [c \in {Caller} |->
                    Invocation(op, OcrRequest(IF op = "test" THEN << >> ELSE PathList[1]))]
    /\ BatchIdle
    /\ ResolverIdle
    /\ OthersIdle

\* the operation is called and runs to its first await, or to its return
\* when it fails before any
ProviderCall ==
    /\ mode = "provider"
    /\ inv[Caller].stage = "idle"
    /\ inv' = [inv EXCEPT ![Caller] =
                  IF @.op = "test" THEN test_connection_begin(@, settings)
                  ELSE extract_receipt_begin(@, settings)]
    /\ UNCHANGED << mode, settings >>
    /\ UnchangedBatch
    /\ UnchangedResolver
    /\ UnchangedOthers

\* the token endpoint answers
ProviderTokenReply(reply) ==
    /\ mode = "provider"
    /\ inv[Caller].stage = "token"
    /\ inv' = [inv EXCEPT ![Caller] =
                  IF @.op = "test" THEN test_connection_token(@, reply)
                  ELSE extract_receipt_token(@, settings, reply)]
    /\ UNCHANGED << mode, settings >>
    /\ UnchangedBatch
    /\ UnchangedResolver
    /\ UnchangedOthers

\* the document processor answers
ProviderSubmitReply(reply) ==
    /\ mode = "provider"
    /\ inv[Caller].stage = "submit"
    /\ inv' = [inv EXCEPT ![Caller] = extract_receipt_submit(@, reply)]
    /\ UNCHANGED << mode, settings >>
    /\ UnchangedBatch
    /\ UnchangedResolver
    /\ UnchangedOthers

ProviderNext ==
    \/ ProviderCall
    \/ \E reply \in TokenReplies : ProviderTokenReply(reply)
    \/ \E reply \in SubmitReplies : ProviderSubmitReply(reply)

ProviderSpec == ProviderInit /\ [][ProviderNext]_vars

---------------------------------------------------------------------------
(* Properties of batch_ocr_receipts *)

Executing == {i \in Tasks : pc[i] \in {"token", "submit"}}

Completed == {i \in Tasks : pc[i] = "done"}

\* the events were not emitted in the order of submission
OutOfOrder == \E k \in 1..Len(events) : events[k].result # Some(Unwrap(results)[k])

\* C1: whatever the order in which the jobs complete, batch_ocr_receipts
\* returns exactly one outcome per job, and the outcome at index i is the
\* result of extract_receipt on the job submitted at index i (the record of a
\* success names the basename of that job's path).
C1_OutcomesInSubmissionOrder ==
    (mode = "batch" /\ IsSome(results)) =>
        LET r == Unwrap(results)
        IN  /\ Len(r) = Len(requests)
            /\ \A i \in Tasks :
                /\ inv[i].op = "extract"
                /\ inv[i].args = requests[i]
                /\ r[i] = ToOcrResult(Unwrap(inv[i].result))
                /\ r[i].success =>
                       Unwrap(r[i].data).file = FileNameOf(requests[i].file_path)

\* a batch larger than the gate has returned, its jobs having completed in an
\* order that is not the order of submission
C1_Witness ==
    /\ mode = "batch"
    /\ IsSome(results)
    /\ Len(requests) > MAX_CONCURRENT_OCR
    /\ OutOfOrder
    /\ \E i \in Tasks : Unwrap(results)[i].success

\* C2: at no time are more than MAX_CONCURRENT_OCR (3) jobs inside
\* extract_receipt, awaiting one of its remote calls.
C2_AtMostThreeExecuting == mode = "batch" => Cardinality(Executing) <= MAX_CONCURRENT_OCR

\* three jobs are in their remote calls and a fourth waits at the gate
C2_Witness ==
    /\ mode = "batch"
    /\ Cardinality(Executing) = MAX_CONCURRENT_OCR
    /\ \E i \in Tasks : pc[i] = "admitted"
    /\ permits = 0

\* C3: the returned sequence has a failure carrying the error message exactly
\* at the indices of the jobs whose pipeline failed and a success carrying
\* the record at every other index; every job has run to its end, and the
\* call returns the sequence, not an error.
C3_FailuresIsolated ==
    (mode = "batch" /\ IsSome(results)) =>
        LET r == Unwrap(results)
        IN  /\ DOMAIN r = Tasks
            /\ \A i \in Tasks :
                /\ inv[i].stage = "done"
                /\ r[i].success = Unwrap(inv[i].result).ok
                /\ r[i].data = Unwrap(inv[i].result).val
                /\ r[i].error = Unwrap(inv[i].result).err
                /\ r[i].success <=> IsNone(r[i].error)

\* the batch of three whose second job failed and whose other jobs succeeded
C3_Witness ==
    /\ mode = "batch"
    /\ IsSome(results)
    /\ Len(requests) = 3
    /\ ~Unwrap(results)[2].success
    /\ Unwrap(results)[1].success
    /\ Unwrap(results)[3].success

\* C4: one progress event is emitted per job, at its completion; the counts
\* the events carry are exactly 1..(number of completed jobs), each once, so
\* exactly 1..N over the whole batch; every event carries total = N.
C4_ProgressCountsExact ==
    mode = "batch" =>
        /\ Len(events) = Cardinality(Completed)
        /\ {events[k].current : k \in 1..Len(events)} = 1..Len(events)
        /\ \A k \in 1..Len(events) : events[k].total = Len(requests)
        /\ \A i \in Completed : \E k \in 1..Len(events) :
            /\ events[k].file_name = FileNameOf(requests[i].file_path)
            /\ events[k].result = Some(Unwrap(output[i])[2])
        /\ IsSome(results) => Len(events) = Len(requests)

\* all the events of a batch larger than the gate have been emitted, not in
\* the order of submission
C4_Witness ==
    /\ mode = "batch"
    /\ IsSome(results)
    /\ Len(events) = MaxJobs
    /\ OutOfOrder
    /\ events[1].file_name # FileNameOf(requests[1].file_path)

\* the steps a batch still has to take: per job, from its state to done, and
\* the return
StepsLeft(state) ==
    CASE state = "pending" -> 4
      [] state = "admitted" -> 3
      [] state = "token" -> 2
      [] state = "submit" -> 1
      [] OTHER -> 0

RECURSIVE SumStepsLeft(_)
SumStepsLeft(i) == IF i = 0 THEN 0 ELSE StepsLeft(pc[i]) + SumStepsLeft(i - 1)

Rank == SumStepsLeft(Len(requests)) + (IF IsNone(results) THEN 1 ELSE 0)

\* some step of the batch can be taken: the guards of the actions of BatchNext
CanStep ==
    \/ \E i \in Tasks : CanStart(i)
    \/ \E i \in Tasks : pc[i] = "admitted" /\ CanAcquire(i)
    \/ \E i \in Tasks : pc[i] \in {"token", "submit"}
    \/ CanReturn

\* CanStep is the enabling condition of BatchNext
CanStepIsEnabled == mode = "batch" => (CanStep <=> ENABLED BatchNext)

NotStuck == mode = "batch" => (IsSome(results) \/ CanStep)

\* C5: for every N, also beyond the gate's 3 permits, the batch cannot get
\* stuck before it has returned: until then some job can take a step (a
\* remote call can answer, or the job first in the queue finds a permit,
\* because a finished job gave its permit back whether it succeeded or
\* failed), and every step brings the batch strictly closer to its return;
\* so when every remote call answers, every job completes and the call
\* returns.
C5_EveryJobCompletes ==
    /\ NotStuck
    /\ [][NotStuck' /\ (mode = "batch" => Rank' < Rank)]_vars
    /\ [][mode = "batch" /\ IsSome(results') => Completed' = Tasks]_vars

\* more jobs than permits, and the batch returned although jobs failed
\* while others waited at the gate
C5_Witness ==
    /\ mode = "batch"
    /\ IsSome(results)
    /\ Len(requests) > MAX_CONCURRENT_OCR
    /\ \A i \in 1..MAX_CONCURRENT_OCR : ~Unwrap(results)[i].success
    /\ Unwrap(results)[Len(requests)].success

\* C5 as a temporal formula, under FairBatchSpec
C5_EventuallyReturns == <>(IsSome(results))

---------------------------------------------------------------------------
(* Properties of the provider *)

\* one of the three required settings is absent
Unconfigured ==
    \/ IsNone(settings.project_id)
    \/ IsNone(settings.processor_id)
    \/ IsNone(settings.service_account_json)

ConfigError(op) == IF op = "test" THEN ERR_TEST_CONFIG ELSE ERR_EXTRACT_CONFIG

\* C6: with projectId, processorId or serviceAccountJson absent, test_connection
\* and extract_receipt issue no network call at all (no token request, no
\* document submission) and return the configuration error.
C6_UnconfiguredNoNetwork ==
    Unconfigured =>
        \A c \in DOMAIN inv :
            /\ inv[c].net = << >>
            /\ inv[c].stage \in {"idle", "done"}
            /\ inv[c].stage = "done" => inv[c].result = Some(Err(ConfigError(inv[c].op)))

\* test_connection has returned under settings that lack only the processor id
C6_Witness ==
    /\ mode = "provider"
    /\ IsNone(settings.processor_id)
    /\ IsSome(settings.project_id)
    /\ settings.service_account_json = Some(GoodJson)
    /\ inv[Caller].op = "test"
    /\ inv[Caller].stage = "done"

\* the credential parses and the token fetch succeeds: the key signs and the
\* token endpoint answers with a token
CredentialAndTokenOk(iv) ==
    /\ ~Unconfigured
    /\ Unwrap(settings.service_account_json).wellformed
    /\ Unwrap(settings.service_account_json).private_key = "rsa_pem"
    /\ iv.answers = << "ok" >>

\* C7: test_connection never submits a document: on every path its network
\* calls are at most the one token request; and it returns Ok exactly when
\* the credential parsed and the token fetch succeeded.
C7_TestConnectionTokenOnly ==
    \A c \in DOMAIN inv :
        inv[c].op = "test" =>
            /\ Len(inv[c].net) <= 1
            /\ \A k \in 1..Len(inv[c].net) : inv[c].net[k].call = "token"
            /\ inv[c].stage \in {"idle", "token", "done"}
            /\ inv[c].stage = "done" =>
                   (Unwrap(inv[c].result).ok <=> CredentialAndTokenOk(inv[c]))

\* test_connection has succeeded, having made its token request
C7_Witness ==
    /\ mode = "provider"
    /\ inv[Caller].op = "test"
    /\ inv[Caller].stage = "done"
    /\ Unwrap(inv[Caller].result).ok
    /\ Len(inv[Caller].net) = 1

---------------------------------------------------------------------------
(* The resolver alone: find_entity *)

MaxEntities == 3

MaxTypes == 2

\* the type tags of the entities and of the candidate lists
Tags == {"total_amount", "invoice_total", "line_item"}

RECURSIVE SeqsUpTo(_, _)
SeqsUpTo(S, n) ==
    IF n = 0 THEN { << >> }
    ELSE SeqsUpTo(S, n - 1) \cup
         { Append(q, x) : q \in { r \in SeqsUpTo(S, n - 1) : Len(r) = n - 1 }, x \in S }

\* entity lists: every entity has one of the tags or no type
FindEntityLists ==
    SeqsUpTo({ Entity(ty, None, None, None) : ty \in {None} \cup {Some(t) : t \in Tags} },
             MaxEntities)

TypeLists == SeqsUpTo(Tags, MaxTypes)

FindInit ==
    /\ mode = "find"
    /\ entities \in FindEntityLists
    /\ types \in TypeLists
    /\ found = None
    /\ entity = Entity(None, None, None, None)
    /\ total = None
    /\ receipt = None
    /\ settings = OcrSettings(None, None, None, None)
    /\ inv = << >>
    /\ BatchIdle
    /\ OthersIdle

FindEntity ==
    /\ mode = "find"
    /\ found = None
    /\ found' = Some(find_entity(entities, types))
    /\ UNCHANGED << mode, settings, inv, entities, types, entity, total, receipt >>
    /\ UnchangedBatch
    /\ UnchangedOthers

FindNext == FindEntity

FindSpec == FindInit /\ [][FindNext]_vars

\* the candidates, by position in the list, that some entity carries
Matching == {k \in 1..Len(types) :
                \E j \in 1..Len(entities) : entities[j].entity_type = Some(types[k])}

Min(S) == CHOOSE x \in S : \A y \in S : x <= y

\* C8: find_entity returns the first entity, in document order, whose type is
\* the earliest candidate of `types` that any entity carries (so an entity of
\* an earlier candidate wins over one of a later candidate wherever they
\* stand), and None exactly when no entity carries a candidate type.
C8_PriorityOverDocumentOrder ==
    (mode = "find" /\ IsSome(found)) =>
        LET r == Unwrap(found)
        IN  IF Matching = {} THEN r = None
            ELSE LET t == types[Min(Matching)]
                 IN  r = Some(Min({j \in 1..Len(entities) :
                                     entities[j].entity_type = Some(t)}))

\* the entity returned stands after an entity of a later candidate
C8_Witness ==
    /\ mode = "find"
    /\ IsSome(found)
    /\ IsSome(Unwrap(found))
    /\ Len(types) = 2
    /\ entities[Unwrap(Unwrap(found))].entity_type = Some(types[1])
    /\ \E i \in 1..(Unwrap(Unwrap(found)) - 1) : entities[i].entity_type = Some(types[2])

---------------------------------------------------------------------------
(* The resolver alone: resolve_total and the amount of the receipt *)

MaxNodes == 4

Str_9 == <<"9">>

Str_7 == <<"7">>

Str_12 == <<"1", "2">>

Str_1_5 == <<"1", ".", "5">>

\* the mention text of the yen sign (one character, not ASCII) and 1,234
Str_Yen1234 == <<"yen", "1", ",", "2", "3", "4">>

Str_NA == <<"n", "/", "a">>

Str_1_2_3 == <<"1", ".", "2", ".", "3">>

Str_Minus5 == <<"-", "5">>

Str_MinusHalf == <<"-", "0", ".", "5">>

Str_Inf == <<"i", "n", "f">>

Str_NaN == <<"n", "a", "n">>

DateOnly == NormalizedValue(None, None, Some(Date(Some(2024), Some(3), Some(5))))

\* what an entity carries of its own, [mention, nv]: the descendants'
ChildValues ==
    { [mention |-> None, nv |-> None],
      [mention |-> Some(Str_1_2_3), nv |-> Some(DateOnly)],
      [mention |-> None, nv |-> Some(NormalizedValue(Some(Str_1_5), None, None))],
      [mention |-> None,
       nv |-> Some(NormalizedValue(None, Some(Money(Some(Str_Minus5), None)), None))] }

\* ... and the root's: every source alone, absent, unparseable, and in
\* competition with the sources after it
RootValues ==
    ChildValues \cup
    { [mention |-> Some(Str_9),
       nv |-> Some(NormalizedValue(Some(Str_7),
                       Some(Money(Some(Str_12), Some(340000000))), None))],
      [mention |-> None,
       nv |-> Some(NormalizedValue(None, Some(Money(Some(Str_12), Some(340000000))), None))],
      [mention |-> Some(Str_Yen1234), nv |-> None],
      [mention |-> Some(Str_Yen1234), nv |-> Some(NormalizedValue(Some(Str_1_5), None, None))],
      [mention |-> Some(Str_Yen1234), nv |-> Some(NormalizedValue(Some(Str_NA), None, None))],
      [mention |-> Some(Str_9), nv |-> Some(NormalizedValue(None, Some(Money(None, None)), None))],
      [mention |-> None,
       nv |-> Some(NormalizedValue(None, Some(Money(Some(Str_NA), Some(500000000))), None))],
      [mention |-> None,
       nv |-> Some(NormalizedValue(None, Some(Money(Some(<<"0">>), Some(-500000000))), None))],
      [mention |-> None, nv |-> Some(NormalizedValue(Some(Str_MinusHalf), None, None))],
      [mention |-> None, nv |-> Some(NormalizedValue(Some(Str_Inf), None, None))],
      [mention |-> Some(Str_NA), nv |-> Some(NormalizedValue(Some(Str_NaN), None, None))] }

\* the shapes of the trees of n nodes, the nodes numbered in depth-first
\* order from the root 1: p[k] is the parent of node k, the last node before
\* k or one of that node's ancestors
RECURSIVE IsAncestorOrSelf(_, _, _)
IsAncestorOrSelf(p, a, x) == x = a \/ (x > 1 /\ IsAncestorOrSelf(p, a, p[x]))

TreeShapes(n) ==
    { p \in [2..n -> 1..n] : \A k \in 2..n : p[k] < k /\ IsAncestorOrSelf(p, p[k], k - 1) }

IthSmallest(S, i) == CHOOSE x \in S : Cardinality({y \in S : y < x}) = i - 1

\* the entity at node k of the tree of shape p whose nodes carry vals; a
\* node without children has no property list, or an empty one if `empty`
RECURSIVE BuildEntity(_, _, _, _)
BuildEntity(p, vals, empty, k) ==
    LET cs == {c \in DOMAIN p : p[c] = k}
    IN  Entity(Some(IF k = 1 THEN "total_amount" ELSE "line_item"),
               vals[k].mention, vals[k].nv,
               IF cs = {} THEN (IF empty THEN Some(<< >>) ELSE None)
               ELSE Some([i \in 1..Cardinality(cs) |->
                            BuildEntity(p, vals, empty, IthSmallest(cs, i))]))

\* the total entity is any tree of at most MaxNodes nodes, or a single node
\* with an empty property list
IsTotalEntity(e) ==
    \E n \in 1..MaxNodes : \E p \in TreeShapes(n) :
        \E r \in RootValues : \E cv \in [2..n -> ChildValues] : \E empty \in BOOLEAN :
            /\ empty => n = 1
            /\ e = BuildEntity(p, [k \in 1..n |-> IF k = 1 THEN r ELSE cv[k]], empty, 1)

TotalInit ==
    /\ mode = "total"
    /\ IsTotalEntity(entity)
    /\ total = None
    /\ receipt = None
    /\ entities = << >>
    /\ types = << >>
    /\ found = None
    /\ settings = OcrSettings(None, None, None, None)
    /\ inv = << >>
    /\ BatchIdle
    /\ OthersIdle

ResolveTotal ==
    /\ mode = "total"
    /\ total = None
    /\ total' = Some(resolve_total(entity))
    /\ UNCHANGED << mode, settings, inv, entities, types, found, entity, receipt >>
    /\ UnchangedBatch
    /\ UnchangedOthers

\* the response whose total entity is `entity`, after a merchant entity
ResponseWith(e) ==
    ApiResponse(<< Entity(Some("merchant_name"), Some(Str_NA), None, None), e >>)

\* extract_receipt's assembly of the record from the response
ExtractFields ==
    /\ mode = "total"
    /\ receipt = None
    /\ receipt' = Some(AssembleReceipt(PathList[1], ResponseWith(entity)))
    /\ UNCHANGED << mode, settings, inv, entities, types, found, entity, total >>
    /\ UnchangedBatch
    /\ UnchangedOthers

TotalNext == ResolveTotal \/ ExtractFields

TotalSpec == TotalInit /\ [][TotalNext]_vars

\* the value an entity yields of its own: the money value, else the
\* normalized text read as a number, else the digits and points of the
\* mention text read as a number
OwnMoney(e) ==
    IF IsSome(e.normalized_value) /\ IsSome(Unwrap(e.normalized_value).money_value)
    THEN LET m == Unwrap(Unwrap(e.normalized_value).money_value)
             u == IF IsSome(m.units) /\ IsSome(ParseF64(Unwrap(m.units)))
                  THEN Unwrap(ParseF64(Unwrap(m.units))) ELSE Fin(0, 0)
             k == IF IsSome(m.nanos) THEN Unwrap(m.nanos) ELSE 0
         IN  Some(AddF64(u, Fin(k \div NanosPerUnit, k % NanosPerUnit)))
    ELSE None

OwnText(e) ==
    IF IsSome(e.normalized_value) /\ IsSome(Unwrap(e.normalized_value).text)
    THEN ParseF64(Unwrap(Unwrap(e.normalized_value).text))
    ELSE None

OwnMention(e) ==
    IF IsSome(e.mention_text)
    THEN ParseF64(SelectSeq(Unwrap(e.mention_text), LAMBDA c : c \in Digits \cup {"."}))
    ELSE None

FirstSome(opts) ==
    IF \E k \in 1..Len(opts) : IsSome(opts[k])
    THEN opts[Min({k \in 1..Len(opts) : IsSome(opts[k])})]
    ELSE None

OwnValue(e) == FirstSome(<< OwnMoney(e), OwnText(e), OwnMention(e) >>)

\* the nodes of the tree in depth-first order, parents before children
RECURSIVE Preorder(_)
RECURSIVE PreorderAll(_)
Preorder(e) ==
    << e >> \o (IF IsSome(e.properties) THEN PreorderAll(Unwrap(e.properties)) ELSE << >>)

PreorderAll(es) ==
    IF es = << >> THEN << >> ELSE Preorder(Head(es)) \o PreorderAll(Tail(es))

\* C9: resolve_total is the first value, in the order money value, normalized
\* text, filtered mention text, children depth-first in order, that a source
\* yields: the own value of the first node in depth-first order that has
\* one, and None exactly when no node has one.  Money {units "12", nanos
\* 340000000} gives 12.34; the mention text of a yen sign and 1,234 with no normalized value
\* gives 1234.
C9_FirstSourceWins ==
    (mode = "total" /\ IsSome(total)) =>
        LET nodes == Preorder(entity)
        IN  /\ Unwrap(total) = FirstSome([k \in 1..Len(nodes) |-> OwnValue(nodes[k])])
            /\ (/\ entity.normalized_value =
                      Some(NormalizedValue(None, Some(Money(Some(Str_12), Some(340000000))), None))
                  => Unwrap(total) = Some(Fin(12, 340000000)))
            /\ (entity.normalized_value = None /\ entity.mention_text = Some(Str_Yen1234)
                  => Unwrap(total) = Some(Fin(1234, 0)))

\* the value came from a grandchild, reached depth-first before a later
\* child that has a value of its own
C9_Witness ==
    /\ mode = "total"
    /\ IsSome(total)
    /\ IsSome(Unwrap(total))
    /\ IsNone(OwnValue(entity))
    /\ IsSome(entity.properties)
    /\ Len(Unwrap(entity.properties)) = 2
    /\ IsNone(OwnValue(Unwrap(entity.properties)[1]))
    /\ IsSome(Unwrap(entity.properties)[1].properties)
    /\ IsSome(OwnValue(Unwrap(entity.properties)[2]))
    /\ Unwrap(total) # OwnValue(Unwrap(entity.properties)[2])

\* C10: the amount of the ReceiptData that extract_receipt assembles, when
\* present, is a finite number that is not negative.
C10_AmountFiniteNonNegative ==
    (mode = "total" /\ IsSome(receipt) /\ IsSome(Unwrap(receipt).amount)) =>
        /\ IsFinite(Unwrap(Unwrap(receipt).amount))
        /\ IsNonNegative(Unwrap(Unwrap(receipt).amount))

---------------------------------------------------------------------------
(* The resolver alone: resolve_text and the date of the receipt *)

Str_IsoDate == <<"2", "0", "2", "4", "-", "0", "3", "-", "0", "5">>

Str_3_5 == <<"3", "/", "5">>

Str_Mar5 == <<"M", "a", "r", " ", "5">>

\* dates as the service sends them: any component may be missing, and the
\* components are any i32
DateValues ==
    { Date(y, m, d) :
        y \in {None, Some(2024), Some(987), Some(12345), Some(-5)},
        m \in {None, Some(3), Some(12), Some(13)},
        d \in {None, Some(5), Some(31), Some(0)} }

TextNormalizedValues ==
    { NormalizedValue(t, None, dv) :
        t \in {None, Some(Str_IsoDate), Some(Str_Mar5)},
        dv \in {None} \cup {Some(x) : x \in DateValues} }
    \cup { NormalizedValue(None, Some(Money(Some(Str_12), None)), None) }

\* the entities resolve_text is given: a date entity or a merchant entity
TextEntities ==
    { Entity(Some(ty), mention, nv, None) :
        ty \in {"receipt_date", "merchant_name"},
        mention \in {None, Some(Str_3_5), Some(Str_IsoDate)},
        nv \in {None} \cup {Some(x) : x \in TextNormalizedValues} }

TextInit ==
    /\ mode = "text"
    /\ entity \in TextEntities
    /\ resolved = None
    /\ receipt = None
    /\ total = None
    /\ entities = << >>
    /\ types = << >>
    /\ found = None
    /\ settings = OcrSettings(None, None, None, None)
    /\ inv = << >>
    /\ BatchIdle
    /\ providers = OcrProviderRegistry_new
    /\ registered = providers
    /\ calls = << >>
    /\ lock = Unlocked
    /\ hung = {}

ResolveText ==
    /\ mode = "text"
    /\ resolved = None
    /\ resolved' = Some(resolve_text(entity))
    /\ UNCHANGED << mode, settings, inv, entities, types, found, entity, total, receipt,
                    providers, registered, calls, lock, hung >>
    /\ UnchangedBatch

\* extract_receipt's assembly of the record from a response holding the entity
ExtractDate ==
    /\ mode = "text"
    /\ receipt = None
    /\ receipt' = Some(AssembleReceipt(PathList[1], ApiResponse(<< entity >>)))
    /\ UNCHANGED << mode, settings, inv, entities, types, found, entity, total, resolved,
                    providers, registered, calls, lock, hung >>
    /\ UnchangedBatch

TextNext == ResolveText \/ ExtractDate

TextSpec == TextInit /\ [][TextNext]_vars

\* four digits, '-', two digits, '-', two digits
IsIsoDate(str) ==
    /\ Len(str) = 10
    /\ \A k \in {1, 2, 3, 4, 6, 7, 9, 10} : str[k] \in Digits
    /\ str[5] = "-"
    /\ str[8] = "-"

\* C11: the date of the ReceiptData that extract_receipt assembles, when
\* present, is a string of the form YYYY-MM-DD: four digits, two digits and
\* two digits, separated by '-'.
C11_DateIsIsoDate ==
    (mode = "text" /\ IsSome(receipt) /\ IsSome(Unwrap(receipt).date)) =>
        IsIsoDate(Unwrap(Unwrap(receipt).date))

\* str is the decimal numeral of k, signed if negative, padded with zeros to
\* `width` characters and no further
IsPaddedNumeral(str, k, width) ==
    LET body == IF str # << >> /\ str[1] = "-" THEN Tail(str) ELSE str
    IN  /\ body # << >>
        /\ \A j \in 1..Len(body) : body[j] \in Digits
        /\ (IF body = str THEN DigitsVal(body) ELSE 0 - DigitsVal(body)) = k
        /\ (k < 0) = (body # str)
        /\ Len(str) >= width
        /\ Len(str) > width => (Len(body) = 1 \/ body[1] # "0")

\* str is year-month-day, each zero padded, to 4, 2 and 2 characters
IsRendering(str, y, m, d) ==
    \E i, j \in 1..Len(str) :
        /\ i < j
        /\ str[i] = "-"
        /\ str[j] = "-"
        /\ IsPaddedNumeral(SubSeq(str, 1, i - 1), y, 4)
        /\ IsPaddedNumeral(SubSeq(str, i + 1, j - 1), m, 2)
        /\ IsPaddedNumeral(SubSeq(str, j + 1, Len(str)), d, 2)

HasText(e) == IsSome(e.normalized_value) /\ IsSome(Unwrap(e.normalized_value).text)

HasDate(e) == IsSome(e.normalized_value) /\ IsSome(Unwrap(e.normalized_value).date_value)

DateOf(e) == Unwrap(Unwrap(e.normalized_value).date_value)

HasCompleteDate(e) ==
    /\ HasDate(e)
    /\ IsSome(DateOf(e).year) /\ IsSome(DateOf(e).month) /\ IsSome(DateOf(e).day)

\* C12, as amended: resolve_text returns normalizedValue.text when it is
\* present; otherwise, when the normalized value has a date whose year,
\* month and day are all present, that date rendered year-month-day, zero
\* padded to 4, 2 and 2 characters (2024, 3, 5 gives "2024-03-05");
\* otherwise, also when the date lacks a component, mentionText; and absent
\* exactly when there is no text, no complete date and no mentionText.
C12_TextThenCompleteDateThenMention ==
    (mode = "text" /\ IsSome(resolved)) =>
        LET r == Unwrap(resolved)
        IN  /\ IF HasText(entity) THEN r = Some(Unwrap(Unwrap(entity.normalized_value).text))
               ELSE IF HasCompleteDate(entity)
               THEN /\ IsSome(r)
                    /\ IsRendering(Unwrap(r), Unwrap(DateOf(entity).year),
                                   Unwrap(DateOf(entity).month), Unwrap(DateOf(entity).day))
               ELSE r = entity.mention_text
            /\ (~HasText(entity) /\ HasDate(entity)
                   /\ DateOf(entity) = Date(Some(2024), Some(3), Some(5)))
                  => r = Some(Str_IsoDate)
            /\ IsNone(r) <=>
                  (~HasText(entity) /\ ~HasCompleteDate(entity) /\ IsNone(entity.mention_text))

\* a complete date was rendered although the entity has a mention text
C12_Witness ==
    /\ mode = "text"
    /\ resolved = Some(Some(Str_IsoDate))
    /\ ~HasText(entity)
    /\ HasCompleteDate(entity)
    /\ entity.mention_text = Some(Str_3_5)

\* some rendering of some date
IsSomeRendering(str) ==
    \E i, j \in 1..Len(str) :
        /\ i < j
        /\ str[i] = "-"
        /\ str[j] = "-"
        /\ \A k \in (1..Len(str)) \ {1, i, j} : str[k] \in Digits
        /\ str[1] \in Digits \cup {"-"}
        /\ i - 1 >= 4 /\ j - i - 1 >= 2 /\ Len(str) - j >= 2

\* C12 as stated: the text when present; otherwise, whenever the normalized
\* value has a date, a rendering of it; otherwise mentionText; absent only
\* when there is no text, no date and no mentionText.
C12_TextThenDateThenMention ==
    (mode = "text" /\ IsSome(resolved)) =>
        LET r == Unwrap(resolved)
        IN  /\ IF HasText(entity) THEN r = Some(Unwrap(Unwrap(entity.normalized_value).text))
               ELSE IF HasDate(entity) THEN IsSome(r) /\ IsSomeRendering(Unwrap(r))
               ELSE r = entity.mention_text
            /\ IsNone(r) =>
                  (~HasText(entity) /\ ~HasDate(entity) /\ IsNone(entity.mention_text))

---------------------------------------------------------------------------
(* Properties of the token exchange within a batch *)

\* the settings pass is_configured and the credential deserialises
PassesParsing ==
    /\ ~Unconfigured
    /\ Unwrap(settings.service_account_json).wellformed

\* ... and its private key is an RSA key in PEM, so that the assertion is signed
KeySigns == Unwrap(settings.service_account_json).private_key = "rsa_pem"

\* the token requests an invocation has issued
TokenRequests(iv) == Cardinality({k \in 1..Len(iv.net) : iv.net[k].call = "token"})

RECURSIVE SumTokenRequests(_)
SumTokenRequests(i) ==
    IF i = 0 THEN 0 ELSE TokenRequests(inv[i]) + SumTokenRequests(i - 1)

\* a document is submitted only with the token the invocation itself asked for
SubmitsWithOwnToken(iv) ==
    \A k \in 1..Len(iv.net) :
        iv.net[k].call = "submit" =>
            /\ k = 2
            /\ iv.net[1].call = "token"
            /\ iv.answers # << >>
            /\ iv.answers[1] = "ok"

\* C13, as amended: every extraction invocation that passes the
\* configuration check and credential parsing, and whose private key parses
\* so that the assertion is signed, issues its own token request, exactly
\* one; no token is cached or reused between invocations (a document is
\* submitted only after the invocation's own token request was answered); so
\* a batch of N such jobs issues exactly N token requests, one per job.  An
\* invocation that fails before (configuration, credential, key) issues none.
C13_OwnTokenRequestPerSignedJob ==
    mode = "batch" =>
        /\ \A i \in Tasks :
            /\ inv[i].stage # "idle" =>
                   TokenRequests(inv[i]) = (IF PassesParsing /\ KeySigns THEN 1 ELSE 0)
            /\ SubmitsWithOwnToken(inv[i])
        /\ (IsSome(results) /\ PassesParsing /\ KeySigns) =>
               SumTokenRequests(Len(requests)) = Len(requests)

\* a batch larger than the gate has returned, every job having asked for its
\* own token, some refused and some granted
C13_Witness ==
    /\ mode = "batch"
    /\ IsSome(results)
    /\ Len(requests) > MAX_CONCURRENT_OCR
    /\ SumTokenRequests(Len(requests)) = Len(requests)
    /\ \E i \in Tasks : inv[i].answers = << "ok", "ok" >>
    /\ \E i \in Tasks : inv[i].answers = << "http_error" >>

\* C13 as stated: every extraction invocation that passes the configuration
\* check and credential parsing issues exactly one token request of its own,
\* so a batch of N such jobs issues exactly N token requests.
C13_OwnTokenRequestPerParsedJob ==
    mode = "batch" =>
        /\ \A i \in Tasks :
            /\ (inv[i].stage # "idle" /\ PassesParsing) => TokenRequests(inv[i]) = 1
            /\ SubmitsWithOwnToken(inv[i])
        /\ (IsSome(results) /\ PassesParsing) =>
               SumTokenRequests(Len(requests)) = Len(requests)

---------------------------------------------------------------------------
(* providers/mod.rs: the registry alone *)

MaxProviders == 3

ProviderNames == {"googledocumentai", "textract", "tesseract"}

\* the provider objects a caller may register: two of each name
ProviderObjects == { Provider(n, k) : n \in ProviderNames, k \in {1, 2} }

\* the registry just after OcrProviderRegistry::new()
RegistryInit ==
    /\ mode = "registry"
    /\ providers = OcrProviderRegistry_new
    /\ registered = << GoogleDocumentAiProvider >>
    /\ resolved = None
    /\ calls = << >>
    /\ lock = Unlocked
    /\ hung = {}
    /\ settings = OcrSettings(None, None, None, None)
    /\ inv = << >>
    /\ BatchIdle
    /\ ResolverIdle

\* registry.register(provider)
Register(provider) ==
    /\ mode = "registry"
    /\ Len(providers) <= MaxProviders
    /\ providers' = register(providers, provider)
    /\ registered' = Append(registered, provider)
    /\ UNCHANGED << mode, settings, inv, resolved, calls, lock, hung >>
    /\ UnchangedBatch
    /\ UnchangedResolver

RegistryNext == \E provider \in ProviderObjects : Register(provider)

RegistrySpec == RegistryInit /\ [][RegistryNext]_vars

\* the positions in the registration history of the providers named n
RegisteredAs(n) == {k \in 1..Len(registered) : registered[k].name = n}

\* C15: after any sequence of register calls, list_providers is the names of
\* all the providers registered, in the order of registration;
\* get_default_provider is the first provider ever registered (None only for
\* an empty registry); get_provider(name) is the earliest registered provider
\* of that name, None when there is none.  A register call removes and
\* reorders nothing.
C15_RegistryKeepsRegistrationOrder ==
    /\ [](mode = "registry" =>
            /\ list_providers(providers) = [k \in 1..Len(registered) |-> registered[k].name]
            /\ get_default_provider(providers) =
                   (IF registered = << >> THEN None ELSE Some(registered[1]))
            /\ \A n \in ProviderNames \cup {"unknown"} :
                   get_provider(providers, n) =
                       (IF RegisteredAs(n) = {} THEN None
                        ELSE Some(registered[Min(RegisteredAs(n))])))
    /\ [][mode = "registry" =>
            /\ Len(providers') >= Len(providers)
            /\ SubSeq(providers', 1, Len(providers)) = providers]_vars

\* two providers of one name are registered after the built-in one, and
\* get_provider answers the earlier of the two
C15_Witness ==
    /\ mode = "registry"
    /\ Len(providers) = 4
    /\ registered[2].name = registered[4].name
    /\ registered[2] # registered[4]
    /\ registered[3].name = "googledocumentai"
    /\ get_provider(providers, registered[4].name) = Some(registered[2])
    /\ get_default_provider(providers) = Some(GoogleDocumentAiProvider)

---------------------------------------------------------------------------
(* The life of one job of a batch *)

\* what each state of a job implies: a pending or admitted job has not run,
\* an admitted job is queued at the gate, an executing job awaits the call
\* its invocation issued last, a completed job has returned its outcome
JobStateConsistent(i) ==
    /\ pc[i] \in {"pending", "admitted", "token", "submit", "done"}
    /\ pc[i] \in {"pending", "admitted"} =>
           inv[i].stage = "idle" /\ inv[i].net = << >> /\ output[i] = None
    /\ pc[i] = "admitted" <=> (\E k \in 1..Len(waiters) : waiters[k] = i)
    /\ pc[i] \in {"token", "submit"} =>
           inv[i].stage = pc[i] /\ Last(inv[i].net).call = pc[i] /\ output[i] = None
    /\ pc[i] = "done" =>
           /\ inv[i].stage = "done"
           /\ output[i] = Some(TaskOutput(i, ToOcrResult(Unwrap(inv[i].result))))

\* a step of job i is a step forward along pending, admitted, executing
\* (token, then submit), done
JobStepsForward(i) ==
    /\ StepsLeft(pc'[i]) <= StepsLeft(pc[i])
    /\ pc[i] = "pending" => pc'[i] \in {"pending", "admitted"}
    /\ (pc[i] = "admitted" /\ pc'[i] # "admitted") =>
           /\ permits > 0
           /\ Head(waiters) = i
           /\ pc'[i] \in {"token", "done"}
    /\ inv'[i] # inv[i] => pc[i] \in {"admitted", "token", "submit"}
    /\ pc[i] = "done" =>
           /\ pc'[i] = "done"
           /\ inv'[i] = inv[i]
           /\ output'[i] = output[i]
           /\ file_name'[i] = file_name[i]

\* C16: every job of a batch moves only forward through Pending, Admitted
\* (queued at the gate), Executing (holding a permit, inside extract_receipt)
\* and Completed: no step takes a job backward, a job runs extract_receipt
\* only from Admitted, as the first of the queue and with a permit free, and
\* a Completed job changes neither its state nor its outcome, nor runs again.
C16_JobsMoveForwardOnly ==
    /\ [](mode = "batch" => \A i \in Tasks : JobStateConsistent(i))
    /\ [][mode = "batch" => \A i \in Tasks : JobStepsForward(i)]_vars

\* a completed job, an executing job, a job at the gate and a pending job
C16_Witness ==
    /\ mode = "batch"
    /\ \E i, j, k, l \in Tasks :
        /\ pc[i] = "done" /\ Unwrap(output[i])[2].success
        /\ pc[j] = "submit"
        /\ pc[k] = "admitted"
        /\ pc[l] = "pending"

---------------------------------------------------------------------------
(* The order of the progress events *)

\* job i holds a permit in this state, or is given one by this step
HoldsPermit(i) ==
    \/ pc[i] \in {"token", "submit"}
    \/ pc[i] = "admitted" /\ CanAcquire(i)

\* this step emits one event: the counter goes up by one, the event carries
\* the new count and is the last emitted, and the job it belongs to
\* completes in this step, having held a permit
EmitsInOrder ==
    /\ completed_count' = completed_count + 1
    /\ Len(events') = Len(events) + 1
    /\ SubSeq(events', 1, Len(events)) = events
    /\ Last(events').current = completed_count'
    /\ \E i \in Tasks :
        /\ HoldsPermit(i)
        /\ pc'[i] = "done"
        /\ Last(events').result = Some(Unwrap(output'[i])[2])
        /\ \A j \in Tasks \ {i} : pc'[j] = pc[j]

\* C19: the k-th progress event emitted carries completedCount = k: the
\* counter and the events advance together, in one step of the job that
\* completes, which holds its permit until then, so no state has a count
\* without its event; and nothing is emitted once batch_ocr_receipts has
\* returned, when all N events are out.
C19_EventsInCountOrder ==
    /\ [](mode = "batch" =>
            /\ \A k \in 1..Len(events) : events[k].current = k
            /\ Len(events) = completed_count
            /\ IsSome(results) => Len(events) = Len(requests))
    /\ [][mode = "batch" =>
            /\ (completed_count' # completed_count \/ events' # events) => EmitsInOrder
            /\ IsSome(results) => events' = events]_vars

\* the batch of three has returned, its jobs having completed in the
\* reverse of the order of submission; the event of the first job carries 3
C19_Witness ==
    /\ mode = "batch"
    /\ IsSome(results)
    /\ Len(requests) = MAX_CONCURRENT_OCR
    /\ Last(events).current = Len(requests)
    /\ \A k \in 1..Len(events) :
           events[k].file_name = FileNameOf(requests[Len(requests) + 1 - k].file_path)

---------------------------------------------------------------------------
(* The network calls of one extract_receipt invocation *)

IsPrefix(p, q) == Len(p) <= Len(q) /\ \A k \in 1..Len(p) : p[k] = q[k]

\* the kinds of the calls issued, in order
CallKinds(iv) == [k \in 1..Len(iv.net) |-> iv.net[k].call]

\* an answer that is a failure: the request was not sent, the status was not
\* a success, or the body did not parse
Failed(iv) == \E k \in 1..Len(iv.answers) : iv.answers[k] # "ok"

PipelineInOrder(iv) ==
    /\ IsPrefix(CallKinds(iv), << "token", "submit" >>)
    /\ Len(iv.answers) <= Len(iv.net)
    /\ Len(iv.net) <= Len(iv.answers) + 1
    /\ Len(iv.net) = 2 =>
           /\ PassesParsing
           /\ iv.answers # << >>
           /\ iv.answers[1] = "ok"
    /\ Failed(iv) =>
           /\ iv.stage = "done"
           /\ ~Unwrap(iv.result).ok
           /\ Len(iv.net) = Len(iv.answers)
           /\ \A k \in 1..(Len(iv.answers) - 1) : iv.answers[k] = "ok"
    /\ iv.stage = "done" <=> IsSome(iv.result)
    /\ (iv.stage = "done" /\ Unwrap(iv.result).ok) => iv.answers = << "ok", "ok" >>
    /\ (iv.stage = "done" /\ ~PassesParsing) => iv.net = << >> /\ ~Unwrap(iv.result).ok

\* C18: the network calls of one extract_receipt invocation are a prefix of
\* token request, document submission, each issued at most once; the
\* document is submitted only after the credential parsed and the token
\* request succeeded; a failure at any stage ends the invocation with an
\* error and no later call; no call is issued again, and an invocation that
\* has returned does nothing more.
C18_TokenThenSubmitNoRetry ==
    /\ [](mode = "provider" =>
            \A c \in DOMAIN inv : inv[c].op = "extract" => PipelineInOrder(inv[c]))
    /\ [][mode = "provider" =>
            \A c \in DOMAIN inv :
                /\ IsPrefix(inv[c].net, inv'[c].net)
                /\ IsPrefix(inv[c].answers, inv'[c].answers)
                /\ inv[c].stage = "done" => inv'[c] = inv[c]]_vars

\* the token was granted, the document refused: two calls, then the error
C18_Witness ==
    /\ mode = "provider"
    /\ inv[Caller].op = "extract"
    /\ inv[Caller].stage = "done"
    /\ inv[Caller].answers = << "ok", "http_error" >>
    /\ CallKinds(inv[Caller]) = << "token", "submit" >>
    /\ inv[Caller].result = Some(Err(ERR_DOC_HTTP))

---------------------------------------------------------------------------
(* batch_ocr_receipts when remote calls may never be answered *)

\* the remote call task i awaits will never be answered (the client has no
\* timeout)
Hang(i) ==
    /\ mode = "batch"
    /\ pc[i] \in {"token", "submit"}
    /\ i \notin hung
    /\ hung' = hung \cup {i}
    /\ UNCHANGED << mode, settings, requests, pc, file_name, inv, permits, waiters,
                    completed_count, events, output, results, resolved, providers,
                    registered, calls, lock >>
    /\ UnchangedResolver

\* the steps of the batch; only the calls that do not hang are answered
HangNext ==
    \/ \E i \in Tasks : Start(i)
    \/ \E i \in Tasks : Acquire(i)
    \/ \E i \in Tasks \ hung : \E reply \in BatchTokenReplies : TokenReply(i, reply)
    \/ \E i \in Tasks \ hung : \E reply \in BatchSubmitReplies : SubmitReply(i, reply)
    \/ Return
    \/ \E i \in Tasks : Hang(i)

HangSpec == BatchInit /\ [][HangNext]_vars

\* C17: a job whose remote call never returns stays Executing and keeps its
\* permit for ever: the permits free and the jobs executing always add up
\* to 3, so the permit is neither taken back nor given to another job; the
\* job never completes and the batch call never returns; and once 3 calls
\* hang no permit is free, and no job queued at the gate ever gets past it.
C17_HungJobKeepsItsPermit ==
    /\ [](mode = "batch" =>
            /\ hung \subseteq Executing
            /\ permits + Cardinality(Executing) = MAX_CONCURRENT_OCR
            /\ permits >= 0
            /\ hung # {} => results = None
            /\ Cardinality(hung) = MAX_CONCURRENT_OCR => permits = 0)
    /\ [][mode = "batch" =>
            /\ hung \subseteq hung'
            /\ \A i \in hung :
                   pc'[i] = pc[i] /\ inv'[i] = inv[i] /\ output'[i] = None
            /\ Cardinality(hung) = MAX_CONCURRENT_OCR =>
                   /\ IsPrefix(waiters, waiters')
                   /\ \A j \in Tasks : pc[j] = "admitted" => pc'[j] = "admitted"]_vars

\* three calls hang, one while its token is fetched and one while its
\* document is processed; a fourth job is queued at the gate
C17_Witness ==
    /\ mode = "batch"
    /\ Cardinality(hung) = MAX_CONCURRENT_OCR
    /\ \E i \in hung : pc[i] = "token"
    /\ \E i \in hung : pc[i] = "submit"
    /\ \E j \in Tasks : pc[j] = "admitted"
    /\ permits = 0

---------------------------------------------------------------------------
(* commands.rs: the three commands and the registry lock *)

MaxCalls == 3

\* one call of a command: its position, the invocation of the provider it
\* makes (test_provider_connection, ocr_receipt), the Result it returned
\*   args  the requests passed: none (test), one (ocr), the batch's (batch)
Call(cmd, args) ==
    [cmd |-> cmd, args |-> args, pc |-> "idle",
     iv |-> Invocation(IF cmd = "test" THEN "test" ELSE "extract",
                       IF cmd = "ocr" THEN args[1] ELSE OcrRequest(<< >>)),
     result |-> None]

CallOf(cmd) ==
    CASE cmd = "test" -> Call(cmd, << >>)
      [] cmd = "ocr" -> Call(cmd, << OcrRequest(PathList[1]) >>)
      [] OTHER -> Call(cmd, << OcrRequest(PathList[1]), OcrRequest(PathList[2]) >>)

\* the calls the front end makes: up to MaxCalls, at most one of them a batch
CallLists ==
    { [c \in DOMAIN cmds |-> CallOf(cmds[c])] :
        cmds \in { q \in UNION { [1..n -> {"test", "ocr", "batch"}] : n \in 1..MaxCalls } :
                      Cardinality({c \in DOMAIN q : q[c] = "batch"}) <= 1 } }

CommandsInit ==
    /\ mode = "batch"
    /\ settings \in { OcrSettings(Some("proj"), None, Some("proc"), Some(GoodJson)),
                       OcrSettings(Some("proj"), None, None, Some(GoodJson)) }
    /\ calls \in CallLists
    /\ lock = Unlocked
    /\ providers = OcrProviderRegistry_new
    /\ registered = providers
    /\ resolved = None
    /\ hung = {}
    /\ inv = << >>
    /\ BatchIdle
    /\ ResolverIdle

\* the command is called: the settings are read and the call queues in
\* registry.lock()
Invoke(c) ==
    /\ mode = "batch"
    /\ calls[c].pc = "idle"
    /\ calls' = [calls EXCEPT ![c].pc = "lock_wait"]
    /\ lock' = [lock EXCEPT !.waiters = Append(@, c)]
    /\ UNCHANGED << mode, settings, inv, resolved, providers, registered, hung >>
    /\ UnchangedBatch
    /\ UnchangedResolver

\* registry.lock().await returns the guard to the first call in the queue
Lock(c) ==
    /\ mode = "batch"
    /\ calls[c].pc = "lock_wait"
    /\ lock.holder = None
    /\ lock.waiters # << >>
    /\ Head(lock.waiters) = c
    /\ lock' = [holder |-> Some(c), waiters |-> Tail(lock.waiters)]
    /\ calls' = [calls EXCEPT ![c].pc = "locked"]
    /\ UNCHANGED << mode, settings, inv, resolved, providers, registered, hung >>
    /\ UnchangedBatch
    /\ UnchangedResolver

\* what the command returns for the Result of its invocation
CommandResult(cmd, r) == IF cmd = "test" THEN r ELSE Ok(ToOcrResult(r))

\* the invocation of call c has moved to iv: the command goes on awaiting
\* it, or returns what it gave and drops the guard
Proceed(c, iv) ==
    IF iv.stage = "done"
    THEN /\ calls' = [calls EXCEPT ![c].iv = iv, ![c].pc = "done",
                          ![c].result = Some(CommandResult(calls[c].cmd, Unwrap(iv.result)))]
         /\ lock' = [lock EXCEPT !.holder = None]
    ELSE /\ calls' = [calls EXCEPT ![c].iv = iv, ![c].pc = "remote"]
         /\ lock' = lock

\* the command fails with ok_or's error: the registry has no provider
NoProvider(c) ==
    /\ calls' = [calls EXCEPT ![c].pc = "done", ![c].result = Some(Err(ERR_NO_PROVIDER))]
    /\ lock' = [lock EXCEPT !.holder = None]

\* test_provider_connection and ocr_receipt, holding the guard: the default
\* provider is looked up and its operation called, up to its first await
SingleLookup(c) ==
    /\ mode = "batch"
    /\ calls[c].pc = "locked"
    /\ calls[c].cmd \in {"test", "ocr"}
    /\ IF IsNone(get_default_provider(providers)) THEN NoProvider(c)
       ELSE IF calls[c].cmd = "test"
       THEN Proceed(c, test_connection_begin(calls[c].iv, settings))
       ELSE Proceed(c, extract_receipt_begin(calls[c].iv, settings))
    /\ UNCHANGED << mode, settings, inv, resolved, providers, registered, hung >>
    /\ UnchangedBatch
    /\ UnchangedResolver

\* the tasks of batch_ocr_receipts are built from the requests
BuildTasks(reqs) ==
    /\ requests' = reqs
    /\ pc' = [i \in 1..Len(reqs) |-> "pending"]
    /\ file_name' = [i \in 1..Len(reqs) |-> None]
    /\ inv' = [i \in 1..Len(reqs) |-> Invocation("extract", reqs[i])]
    /\ output' = [i \in 1..Len(reqs) |-> None]
    /\ UNCHANGED << permits, waiters, completed_count, events, results >>

\* mutant of BatchLookup: the guard is not dropped before the tasks run
MutBatchLookupKeepsGuard(c) ==
    /\ mode = "batch"
    /\ calls[c].pc = "locked"
    /\ calls[c].cmd = "batch"
    /\ calls' = [calls EXCEPT ![c].pc = "jobs"]
    /\ lock' = lock
    /\ BuildTasks(calls[c].args)
    /\ UNCHANGED << mode, settings, resolved, providers, registered, hung >>
    /\ UnchangedResolver

\* batch_ocr_receipts, holding the guard: the default provider is looked up
\* and cloned, the guard dropped, and the tasks built
BatchLookup(c) ==
    /\ mode = "batch"
    /\ calls[c].pc = "locked"
    /\ calls[c].cmd = "batch"
    /\ IF IsNone(get_default_provider(providers))
       THEN /\ NoProvider(c)
            /\ UNCHANGED << inv >>
            /\ UnchangedBatch
       ELSE /\ calls' = [calls EXCEPT ![c].pc = "jobs"]
            /\ lock' = [lock EXCEPT !.holder = None]
            /\ BuildTasks(calls[c].args)
    /\ UNCHANGED << mode, settings, resolved, providers, registered, hung >>
    /\ UnchangedResolver

\* the token endpoint answers the invocation of call c
CallTokenReply(c, reply) ==
    /\ mode = "batch"
    /\ calls[c].pc = "remote"
    /\ calls[c].iv.stage = "token"
    /\ IF calls[c].cmd = "test"
       THEN Proceed(c, test_connection_token(calls[c].iv, reply))
       ELSE Proceed(c, extract_receipt_token(calls[c].iv, settings, reply))
    /\ UNCHANGED << mode, settings, inv, resolved, providers, registered, hung >>
    /\ UnchangedBatch
    /\ UnchangedResolver

\* the document processor answers the invocation of call c
CallSubmitReply(c, reply) ==
    /\ mode = "batch"
    /\ calls[c].pc = "remote"
    /\ calls[c].iv.stage = "submit"
    /\ Proceed(c, extract_receipt_submit(calls[c].iv, reply))
    /\ UNCHANGED << mode, settings, inv, resolved, providers, registered, hung >>
    /\ UnchangedBatch
    /\ UnchangedResolver

\* the batch call has built its tasks and join_all polls them
BatchRunning == \E c \in DOMAIN calls : calls[c].cmd = "batch" /\ calls[c].pc = "jobs"

CommandsNext ==
    \/ \E c \in DOMAIN calls : Invoke(c)
    \/ \E c \in DOMAIN calls : Lock(c)
    \/ \E c \in DOMAIN calls : SingleLookup(c)
    \/ \E c \in DOMAIN calls : BatchLookup(c)
    \/ \E c \in DOMAIN calls : \E reply \in BatchTokenReplies : CallTokenReply(c, reply)
    \/ \E c \in DOMAIN calls : \E reply \in BatchSubmitReplies : CallSubmitReply(c, reply)
    \/ BatchRunning /\ \E i \in Tasks : Start(i)
    \/ BatchRunning /\ \E i \in Tasks : Acquire(i)
    \/ BatchRunning /\ \E i \in Tasks : \E reply \in BatchTokenReplies : TokenReply(i, reply)
    \/ BatchRunning /\ \E i \in Tasks : \E reply \in BatchSubmitReplies : SubmitReply(i, reply)
    \/ BatchRunning /\ Return

CommandsSpec == CommandsInit /\ [][CommandsNext]_vars

---------------------------------------------------------------------------
(* The registry lock across the commands *)

SingleCalls == {c \in DOMAIN calls : calls[c].cmd \in {"test", "ocr"}}

BatchCalls == {c \in DOMAIN calls : calls[c].cmd = "batch"}

\* the single calls that await an answer of the network
InRemoteCall == {c \in SingleCalls : calls[c].pc = "remote"}

\* a task of the batch has been built
JobsExist == requests # << >>

\* a job has been started, admitted or executed
JobsMoved == \E i \in Tasks : pc[i] # "pending"

\* the batch holds the guard only for its lookup, with no job yet; a single
\* call holds it from its lookup to its return
LockHeldAsCoded ==
    /\ \A c \in BatchCalls :
           lock.holder = Some(c) => calls[c].pc = "locked" /\ ~JobsExist
    /\ \A c \in SingleCalls :
           /\ calls[c].pc \in {"locked", "remote"} <=> lock.holder = Some(c)
           /\ calls[c].pc = "remote" => calls[c].iv.stage \in {"token", "submit"}
    /\ Cardinality(InRemoteCall) <= 1
    /\ JobsMoved => \E c \in BatchCalls : calls[c].pc = "jobs"

\* a batch that has not built its tasks builds none, and no job moves, in a
\* step taken while a single call is in its remote call
BatchWaitsForSingleCall ==
    (InRemoteCall # {} /\ \E c \in BatchCalls : calls[c].pc \in {"idle", "lock_wait"})
        => /\ ~JobsExist'
           /\ \A c \in BatchCalls : calls'[c].pc \in {"idle", "lock_wait"}
           /\ pc' = pc

\* C20: batch_ocr_receipts holds the registry lock only while it looks up
\* the default provider and has released it before any job exists, while
\* ocr_receipt and test_provider_connection hold it from the lookup until
\* they return; so at most one of these is in its remote call at any time,
\* and a batch called while one is in flight builds and starts no job until
\* that call has returned.
C20_BatchDropsLockSingleCallsKeepIt ==
    [](LockHeldAsCoded) /\ [][BatchWaitsForSingleCall]_vars

\* a single-file extraction awaits the document processor holding the lock,
\* with a batch and a connection test queued behind it and no job built
C20_Witness ==
    \E c \in SingleCalls : \E b \in BatchCalls : \E t \in SingleCalls :
        /\ calls[c].cmd = "ocr"
        /\ calls[c].pc = "remote"
        /\ calls[c].iv.stage = "submit"
        /\ lock.holder = Some(c)
        /\ calls[t].cmd = "test"
        /\ lock.waiters = << b, t >>
        /\ ~JobsExist

---------------------------------------------------------------------------
(* The outcomes the commands produce *)

\* exactly one of data and error is present, gated by success
WellFormedOutcome(r) ==
    /\ r.success => IsSome(r.data) /\ IsNone(r.error)
    /\ ~r.success => IsSome(r.error) /\ IsNone(r.data)

\* the outcomes ocr_receipt has returned
OcrReceiptOutcomes ==
    { Unwrap(Unwrap(calls[c].result).val) :
        c \in {d \in DOMAIN calls : /\ calls[d].cmd = "ocr"
                                     /\ IsSome(calls[d].result)
                                     /\ Unwrap(calls[d].result).ok} }

\* the outcomes of the batch: those of its finished tasks, those in the
\* list it returned, and those carried in the progress events
BatchOutcomes ==
    { Unwrap(output[i])[2] : i \in {j \in DOMAIN output : IsSome(output[j])} }
        \cup (IF IsSome(results)
              THEN { Unwrap(results)[k] : k \in 1..Len(Unwrap(results)) } ELSE {})

EventOutcomes ==
    { Unwrap(events[k].result) : k \in {j \in 1..Len(events) : IsSome(events[j].result)} }

\* C14: every OcrResult that ocr_receipt returns, that batch_ocr_receipts
\* produces or returns, or that a progress event carries has exactly one of
\* data and error: success = true goes with data present and error absent,
\* success = false with error present and data absent.
C14_OutcomeHasDataXorError ==
    \A r \in OcrReceiptOutcomes \cup BatchOutcomes \cup EventOutcomes : WellFormedOutcome(r)

\* ocr_receipt has returned a failure and another call of it a success, and
\* the batch has returned a success and a failure, each also in an event
C14_Witness ==
    /\ \E r \in OcrReceiptOutcomes : ~r.success
    /\ \E r \in OcrReceiptOutcomes : r.success
    /\ IsSome(results)
    /\ \E j, k \in 1..Len(Unwrap(results)) :
           Unwrap(results)[j].success /\ ~Unwrap(results)[k].success
    /\ \E r \in EventOutcomes : r.success
    /\ \E r \in EventOutcomes : ~r.success
    /\ \A k \in 1..Len(events) : IsSome(events[k].result)

====
